---- MODULE Spec2Model ----
(***************************************************************************)
(* ring_buffer<T, S> of src/ringbuffer.h as a state machine.               *)
(*                                                                         *)
(* The object's state is its three data members (m_storage, m_cwrite,      *)
(* m_cread); m_mask is the constant S - 1.  Every public member function   *)
(* is a pure operator on a record of the three members, written from its   *)
(* body, and one action per member function applies it to the object.     *)
(* index_type (std::size_t) is modelled as an unsigned integer of          *)
(* IndexBits bits: all cursor arithmetic is modulo IndexMod.               *)
(*                                                                         *)
(* History variables (op, arg, ret, pre) record the call in progress, its   *)
(* arguments, what it returned and the state it was called in; queue is    *)
(* the abstract bounded FIFO the buffer is compared with.  A call is two   *)
(* steps: the member function runs as a whole (Call...), then the caller   *)
(* takes the result and the call record is dropped (Return).               *)
(*                                                                         *)
(* pc is the position in the scripted scenario of SpecScenario (0 when no  *)
(* script runs); wide is the reference buffer with unbounded cursors that  *)
(* SpecWide runs beside the object (NoWide elsewhere).                     *)
(***************************************************************************)
EXTENDS Integers, Sequences, FiniteSets, TLC

VARIABLES S, m_storage, m_cwrite, m_cread, value, op, arg, ret, pre, queue,
          pc, wide

vars == <<S, m_storage, m_cwrite, m_cread, value, op, arg, ret, pre, queue,
          pc, wide>>

(***************************************************************************)
(* Bounds of the model.                                                    *)
(***************************************************************************)
\* element values are 0 .. MaxVal
MaxVal == 1
\* index_type has IndexBits bits
IndexBits == 4
\* capacities 0 .. MaxCap are offered to the size validator
MaxCap == 4
\* bulk writes have len in -1 .. MaxLen
MaxLen == 5

Values == 0 .. MaxVal
IndexMod == 2 ^ IndexBits
Index == 0 .. (IndexMod - 1)

(***************************************************************************)
(* Unsigned arithmetic of index_type.                                      *)
(***************************************************************************)
\* conversion of a (possibly negative) integer to index_type
ToIndex(x) == x % IndexMod

RECURSIVE BitAnd(_, _)
\* a & b on non-negative integers
BitAnd(a, b) ==
    IF a = 0 \/ b = 0 THEN 0
    ELSE (a % 2) * (b % 2) + 2 * BitAnd(a \div 2, b \div 2)

\* ~a on index_type
BitNot(a) == (IndexMod - 1) - a

(***************************************************************************)
(* Capacity validation (static_assert) and the mask.                       *)
(***************************************************************************)
\* the validator with the test S > 0 forgotten
ring_buffer_size_validator_no_zero_test(s) == BitAnd(s, ToIndex(s - 1)) = 0

ring_buffer_size_validator__(s) == s > 0 /\ BitAnd(s, ToIndex(s - 1)) = 0

\* the capacities the class can be instantiated with, within the bound
Capacities == {s \in 0 .. MaxCap : ring_buffer_size_validator__(s)}

m_mask == ToIndex(S - 1)

size == S

\* the object as a record of its data members
this == [m_storage |-> m_storage, m_cwrite |-> m_cwrite, m_cread |-> m_cread]

(***************************************************************************)
(* State queries.                                                          *)
(***************************************************************************)
\* is_full tested on the masked count: never true
is_full_masked(rb) ==
    BitAnd(ToIndex(rb.m_cwrite - rb.m_cread), m_mask) = S

\* is_full with the complement of the mask forgotten
is_full_no_complement(rb) ==
    BitAnd(ToIndex(rb.m_cwrite - rb.m_cread), m_mask) # 0

\* is_full with the difference of the cursors taken in a wider signed type
is_full_wide_difference(rb) ==
    IF rb.m_cwrite < rb.m_cread
    THEN TRUE
    ELSE BitAnd(rb.m_cwrite - rb.m_cread, BitNot(m_mask)) # 0

is_full(rb) ==
    BitAnd(ToIndex(rb.m_cwrite - rb.m_cread), BitNot(m_mask)) # 0

\* is_empty tested on count()
is_empty_by_count(rb) ==
    BitAnd(ToIndex(rb.m_cwrite - rb.m_cread), m_mask) = 0

is_empty(rb) == rb.m_cwrite = rb.m_cread

\* count without the mask
count_unmasked(rb) == ToIndex(rb.m_cwrite - rb.m_cread)

count(rb) == BitAnd(ToIndex(rb.m_cwrite - rb.m_cread), m_mask)

(***************************************************************************)
(* Results of calls.                                                       *)
(***************************************************************************)
RetVoid     == [kind |-> "void",  b |-> FALSE, v |-> 0]
RetBool(b)  == [kind |-> "bool",  b |-> b,     v |-> 0]
RetValue(v) == [kind |-> "value", b |-> FALSE, v |-> v]
OutOfRange  == [kind |-> "out_of_range", b |-> FALSE, v |-> 0]

(***************************************************************************)
(* read(value_type &): the buffer afterwards, the caller's variable        *)
(* afterwards (out) and the returned bool.                                 *)
(***************************************************************************)
\* read taking the newest element instead of the oldest
read_newest(rb, out) ==
    IF rb.m_cwrite = rb.m_cread
    THEN [rb |-> rb, out |-> out, ret |-> FALSE]
    ELSE [rb  |-> [rb EXCEPT !.m_cread = ToIndex(@ + 1)],
          out |-> rb.m_storage[BitAnd(ToIndex(rb.m_cwrite - 1), m_mask)],
          ret |-> TRUE]

\* read loading the slot into the caller's variable before the empty test
read_load_first(rb, out) ==
    IF rb.m_cwrite = rb.m_cread
    THEN [rb |-> rb, out |-> rb.m_storage[BitAnd(rb.m_cread, m_mask)],
          ret |-> FALSE]
    ELSE [rb  |-> [rb EXCEPT !.m_cread = ToIndex(@ + 1)],
          out |-> rb.m_storage[BitAnd(rb.m_cread, m_mask)],
          ret |-> TRUE]

read(rb, out) ==
    IF is_empty(rb)
    THEN [rb |-> rb, out |-> out, ret |-> FALSE]
    ELSE [rb  |-> [rb EXCEPT !.m_cread = ToIndex(@ + 1)],
          out |-> rb.m_storage[BitAnd(rb.m_cread, m_mask)],
          ret |-> TRUE]

(***************************************************************************)
(* write(const value_type &) and write(value_type &&).                     *)
(***************************************************************************)
\* write storing the value before the full test
write_store_first(rb, v) ==
    IF BitAnd(ToIndex(rb.m_cwrite - rb.m_cread), BitNot(m_mask)) # 0
    THEN [rb  |-> [rb EXCEPT !.m_storage[BitAnd(rb.m_cwrite, m_mask)] = v],
          ret |-> FALSE]
    ELSE [rb  |-> [rb EXCEPT !.m_storage[BitAnd(rb.m_cwrite, m_mask)] = v,
                             !.m_cwrite = ToIndex(@ + 1)],
          ret |-> TRUE]

\* write that drops the oldest element of a full buffer to make room
write_overwrite_oldest(rb, v) ==
    IF BitAnd(ToIndex(rb.m_cwrite - rb.m_cread), BitNot(m_mask)) # 0
    THEN [rb  |-> [rb EXCEPT !.m_storage[BitAnd(rb.m_cwrite, m_mask)] = v,
                             !.m_cwrite = ToIndex(@ + 1),
                             !.m_cread = ToIndex(@ + 1)],
          ret |-> TRUE]
    ELSE [rb  |-> [rb EXCEPT !.m_storage[BitAnd(rb.m_cwrite, m_mask)] = v,
                             !.m_cwrite = ToIndex(@ + 1)],
          ret |-> TRUE]

write(rb, v) ==
    IF is_full(rb)
    THEN [rb |-> rb, ret |-> FALSE]
    ELSE [rb  |-> [rb EXCEPT !.m_storage[BitAnd(rb.m_cwrite, m_mask)] = v,
                             !.m_cwrite = ToIndex(@ + 1)],
          ret |-> TRUE]

(***************************************************************************)
(* write(const void *, ssize_t): p is the source array (1-based here),     *)
(* len the signed length.  The comparison (size() - count()) < len is      *)
(* unsigned: len is converted to index_type.                               *)
(***************************************************************************)
RECURSIVE write_loop(_, _, _, _)
\* while(i < len) write(ptr[i++]);
write_loop(rb, p, i, len) ==
    IF i < len
    THEN write_loop(write(rb, p[i + 1]).rb, p, i + 1, len)
    ELSE rb

\* the bulk write with the free-space comparison made signed
write_bulk_signed(rb, p, len) ==
    IF len = 0 \/ (size - count(rb)) < len
    THEN [rb |-> rb, ret |-> FALSE]
    ELSE [rb |-> write_loop(rb, p, 0, len), ret |-> TRUE]

write_bulk(rb, p, len) ==
    IF len = 0 \/ ToIndex(size - count(rb)) < ToIndex(len)
    THEN [rb |-> rb, ret |-> FALSE]
    ELSE [rb |-> write_loop(rb, p, 0, len), ret |-> TRUE]

(***************************************************************************)
(* clear().                                                                *)
(***************************************************************************)
\* clear resetting the read cursor only
clear_read_only(rb) == [rb EXCEPT !.m_cread = 0]

clear(rb) == [rb EXCEPT !.m_cread = 0, !.m_cwrite = 0]

(***************************************************************************)
(* operator[](index_type), first(), last().                                *)
(***************************************************************************)
index(rb, i) ==
    IF is_empty(rb) \/ i > count(rb)
    THEN OutOfRange
    ELSE RetValue(rb.m_storage[BitAnd(ToIndex(rb.m_cread + i), m_mask)])

first(rb) == index(rb, 0)

last(rb) == index(rb, ToIndex(count(rb) - 1))

(***************************************************************************)
(* operator<<(v): write(v), result discarded, returns *this.               *)
(***************************************************************************)
\* operator<< storing the value also when the buffer is full
insert_always(rb, v) ==
    [rb EXCEPT !.m_storage[BitAnd(rb.m_cwrite, m_mask)] = v,
               !.m_cwrite = IF is_full(rb) THEN @ ELSE ToIndex(@ + 1)]

insert(rb, v) == write(rb, v).rb

(***************************************************************************)
(* The abstract bounded FIFO queue of capacity S.                          *)
(***************************************************************************)
AbsWrite(q, v) == IF Len(q) = S THEN q ELSE Append(q, v)

AbsRead(q) == IF q = <<>> THEN q ELSE Tail(q)

AbsBulk(q, p, len) ==
    IF len <= 0 \/ len > S - Len(q) THEN q ELSE q \o SubSeq(p, 1, len)

\* the elements the buffer holds, oldest first, read off the storage
Stored(rb) ==
    [k \in 1 .. ToIndex(rb.m_cwrite - rb.m_cread) |->
        rb.m_storage[BitAnd(ToIndex(rb.m_cread + (k - 1)), m_mask)]]

(***************************************************************************)
(* Source arrays of bulk writes: Source(b, n) is the array of n elements   *)
(* b, b+1, ... (modulo the number of values).                              *)
(***************************************************************************)
Source(b, n) == [k \in 1 .. n |-> (b + (k - 1)) % (MaxVal + 1)]

NoArg == [v |-> 0, p |-> <<>>, len |-> 0, i |-> 0]

Snapshot ==
    [m_storage |-> m_storage, m_cwrite |-> m_cwrite, m_cread |-> m_cread,
     value |-> value, queue |-> queue]

(***************************************************************************)
(* Construction: both cursors zero; the storage of a default-initialised   *)
(* std::array of a trivial T is indeterminate, as is the caller's variable.*)
(***************************************************************************)
\* the reference buffer is not in use
NoWide ==
    [m_storage |-> <<>>, m_cwrite |-> 0, m_cread |-> 0, out |-> 0,
     ret |-> FALSE]

Init ==
    /\ pc = 0
    /\ wide = NoWide
    /\ S \in Capacities
    /\ m_storage \in [0 .. (S - 1) -> Values]
    /\ m_cwrite = 0
    /\ m_cread = 0
    /\ value \in Values
    /\ op = "ring_buffer"
    /\ arg = NoArg
    /\ ret = RetVoid
    /\ pre = [m_storage |-> m_storage, m_cwrite |-> 0, m_cread |-> 0,
              value |-> value, queue |-> <<>>]
    /\ queue = <<>>

\* no call is in progress
Idle == op = "idle"

\* the caller has the result of the call (or of the construction); its record
\* is dropped
Return ==
    /\ ~Idle
    /\ op' = "idle"
    /\ arg' = NoArg
    /\ ret' = RetVoid
    /\ pre' = Snapshot
    /\ UNCHANGED <<S, m_storage, m_cwrite, m_cread, value, queue, pc, wide>>

Install(rb) ==
    /\ m_storage' = rb.m_storage
    /\ m_cwrite' = rb.m_cwrite
    /\ m_cread' = rb.m_cread

\* the call write(v) on the object
DoWrite(v) ==
    LET r == write(this, v) IN
    /\ Install(r.rb)
    /\ op' = "write"
    /\ arg' = [NoArg EXCEPT !.v = v]
    /\ ret' = RetBool(r.ret)
    /\ pre' = Snapshot
    /\ queue' = AbsWrite(queue, v)
    /\ UNCHANGED <<S, value>>

\* the call read(value) on the object
DoRead ==
    LET r == read(this, value) IN
    /\ Install(r.rb)
    /\ value' = r.out
    /\ op' = "read"
    /\ arg' = NoArg
    /\ ret' = RetBool(r.ret)
    /\ pre' = Snapshot
    /\ queue' = AbsRead(queue)
    /\ UNCHANGED S

CallWrite ==
    \E v \in Values :
        /\ Idle
        /\ DoWrite(v)
        /\ UNCHANGED <<pc, wide>>

CallRead ==
    /\ Idle
    /\ DoRead
    /\ UNCHANGED <<pc, wide>>

\* the lengths offered to the bulk write: -1 .. MaxLen and the least ssize_t
BulkLens == (-1 .. MaxLen) \cup {-(IndexMod \div 2)}

CallWriteBulk ==
    \E len \in BulkLens, b \in Values :
        LET p == Source(b, IF len > 0 THEN len ELSE 0)
            r == write_bulk(this, p, len) IN
        /\ Idle
        /\ Install(r.rb)
        /\ op' = "write_bulk"
        /\ arg' = [NoArg EXCEPT !.p = p, !.len = len]
        /\ ret' = RetBool(r.ret)
        /\ pre' = Snapshot
        /\ queue' = AbsBulk(queue, p, len)
        /\ UNCHANGED <<S, value, pc, wide>>

CallClear ==
    /\ Idle
    /\ Install(clear(this))
    /\ op' = "clear"
    /\ arg' = NoArg
    /\ ret' = RetVoid
    /\ pre' = Snapshot
    /\ queue' = <<>>
    /\ UNCHANGED <<S, value, pc, wide>>

CallInsert ==
    \E v \in Values :
        /\ Idle
        /\ Install(insert(this, v))
        /\ op' = "operator<<"
        /\ arg' = [NoArg EXCEPT !.v = v]
        /\ ret' = RetVoid
        /\ pre' = Snapshot
        /\ queue' = AbsWrite(queue, v)
        /\ UNCHANGED <<S, value, pc, wide>>

\* the indices offered to operator[]: every index of a buffer of the largest
\* capacity, the two behind it and the largest index_type value
IndexArgs == (0 .. (MaxCap + 1)) \cup {IndexMod - 1}

CallIndex ==
    \E i \in IndexArgs :
        /\ Idle
        /\ op' = "operator[]"
        /\ arg' = [NoArg EXCEPT !.i = i]
        /\ ret' = index(this, i)
        /\ pre' = Snapshot
        /\ UNCHANGED <<S, m_storage, m_cwrite, m_cread, value, queue, pc, wide>>

CallFirst ==
    /\ Idle
    /\ op' = "first"
    /\ arg' = NoArg
    /\ ret' = first(this)
    /\ pre' = Snapshot
    /\ UNCHANGED <<S, m_storage, m_cwrite, m_cread, value, queue, pc, wide>>

CallLast ==
    /\ Idle
    /\ op' = "last"
    /\ arg' = NoArg
    /\ ret' = last(this)
    /\ pre' = Snapshot
    /\ UNCHANGED <<S, m_storage, m_cwrite, m_cread, value, queue, pc, wide>>

CallIsFull ==
    /\ Idle
    /\ op' = "is_full"
    /\ arg' = NoArg
    /\ ret' = RetBool(is_full(this))
    /\ pre' = Snapshot
    /\ UNCHANGED <<S, m_storage, m_cwrite, m_cread, value, queue, pc, wide>>

CallIsEmpty ==
    /\ Idle
    /\ op' = "is_empty"
    /\ arg' = NoArg
    /\ ret' = RetBool(is_empty(this))
    /\ pre' = Snapshot
    /\ UNCHANGED <<S, m_storage, m_cwrite, m_cread, value, queue, pc, wide>>

CallCount ==
    /\ Idle
    /\ op' = "count"
    /\ arg' = NoArg
    /\ ret' = RetValue(count(this))
    /\ pre' = Snapshot
    /\ UNCHANGED <<S, m_storage, m_cwrite, m_cread, value, queue, pc, wide>>

Next ==
    \/ CallWrite
    \/ CallRead
    \/ CallWriteBulk
    \/ CallClear
    \/ CallInsert
    \/ CallIndex
    \/ CallFirst
    \/ CallLast
    \/ CallIsFull
    \/ CallIsEmpty
    \/ CallCount
    \/ Return

Spec == Init /\ [][Next]_vars

(***************************************************************************)
(* The scripted scenario on a new buffer of capacity 4 holding values      *)
(* 1 .. 5: write 1, 2, 3, 4, a fifth write, read, write 5, four reads.     *)
(* Script[k] is the k-th call; v = 0 stands for any value.                 *)
(***************************************************************************)
ScenarioValues == 1 .. 5

Script ==
    << [op |-> "write", v |-> 1], [op |-> "write", v |-> 2],
       [op |-> "write", v |-> 3], [op |-> "write", v |-> 4],
       [op |-> "write", v |-> 0], [op |-> "read",  v |-> 0],
       [op |-> "write", v |-> 5], [op |-> "read",  v |-> 0],
       [op |-> "read",  v |-> 0], [op |-> "read",  v |-> 0],
       [op |-> "read",  v |-> 0] >>

InitScenario ==
    /\ pc = 1
    /\ wide = NoWide
    /\ S = 4
    /\ ring_buffer_size_validator__(S)
    /\ m_storage \in [0 .. (S - 1) -> ScenarioValues]
    /\ m_cwrite = 0
    /\ m_cread = 0
    /\ value \in ScenarioValues
    /\ op = "ring_buffer"
    /\ arg = NoArg
    /\ ret = RetVoid
    /\ pre = [m_storage |-> m_storage, m_cwrite |-> 0, m_cread |-> 0,
              value |-> value, queue |-> <<>>]
    /\ queue = <<>>

ScenarioWrite ==
    /\ pc \in 1 .. Len(Script)
    /\ Script[pc].op = "write"
    /\ \E v \in ScenarioValues :
          /\ Script[pc].v \in {0, v}
          /\ DoWrite(v)
    /\ pc' = pc + 1
    /\ UNCHANGED wide

ScenarioRead ==
    /\ pc \in 1 .. Len(Script)
    /\ Script[pc].op = "read"
    /\ DoRead
    /\ pc' = pc + 1
    /\ UNCHANGED wide

NextScenario ==
    \/ ScenarioWrite
    \/ ScenarioRead

SpecScenario == InitScenario /\ [][NextScenario]_vars

(***************************************************************************)
(* The reference buffer: the same member functions with cursors that are   *)
(* unbounded integers.  SpecWide applies every write and read to the       *)
(* object and to the reference; the reference's write cursor is capped at  *)
(* MaxWide.                                                                *)
(***************************************************************************)
MaxWide == IndexMod + (IndexMod \div 2)

wide_is_empty(rb) == rb.m_cwrite = rb.m_cread

\* (m_cwrite - m_cread) & ~m_mask, the complement having all higher bits
wide_is_full(rb) ==
    LET d == rb.m_cwrite - rb.m_cread IN (d - BitAnd(d, m_mask)) # 0

wide_count(rb) == BitAnd(rb.m_cwrite - rb.m_cread, m_mask)

wide_write(rb, v) ==
    IF wide_is_full(rb)
    THEN [rb EXCEPT !.ret = FALSE]
    ELSE [rb EXCEPT !.m_storage[BitAnd(rb.m_cwrite, m_mask)] = v,
                    !.m_cwrite = @ + 1,
                    !.ret = TRUE]

wide_read(rb) ==
    IF wide_is_empty(rb)
    THEN [rb EXCEPT !.ret = FALSE]
    ELSE [rb EXCEPT !.out = rb.m_storage[BitAnd(rb.m_cread, m_mask)],
                    !.m_cread = @ + 1,
                    !.ret = TRUE]

\* the elements of the reference buffer, oldest first
WideStored(rb) ==
    [k \in 1 .. (rb.m_cwrite - rb.m_cread) |->
        rb.m_storage[BitAnd(rb.m_cread + (k - 1), m_mask)]]

InitWide ==
    /\ pc = 0
    /\ S \in Capacities
    /\ m_storage \in [0 .. (S - 1) -> Values]
    /\ m_cwrite = 0
    /\ m_cread = 0
    /\ value \in Values
    /\ op = "ring_buffer"
    /\ arg = NoArg
    /\ ret = RetVoid
    /\ pre = [m_storage |-> m_storage, m_cwrite |-> 0, m_cread |-> 0,
              value |-> value, queue |-> <<>>]
    /\ queue = <<>>
    /\ wide = [m_storage |-> m_storage, m_cwrite |-> 0, m_cread |-> 0,
               out |-> value, ret |-> FALSE]

WideWrite ==
    \E v \in Values :
        /\ Idle
        /\ wide.m_cwrite < MaxWide
        /\ DoWrite(v)
        /\ wide' = wide_write(wide, v)
        /\ UNCHANGED pc

WideRead ==
    /\ Idle
    /\ DoRead
    /\ wide' = wide_read(wide)
    /\ UNCHANGED pc

NextWide ==
    \/ WideWrite
    \/ WideRead
    \/ Return

SpecWide == InitWide /\ [][NextWide]_vars

(***************************************************************************)
(* Properties.                                                             *)
(***************************************************************************)
\* the number of stored elements, write_cursor - read_cursor in index_type
Fill(rb) == ToIndex(rb.m_cwrite - rb.m_cread)

\* the call left cursors and storage as they were
BufferUnchanged ==
    /\ m_storage = pre.m_storage
    /\ m_cwrite = pre.m_cwrite
    /\ m_cread = pre.m_cread

\* C1: the buffer behaves like the abstract bounded queue of length at most
\* S: the stored elements, oldest first, are the abstract queue; a write
\* succeeds exactly when the queue is shorter than S, a read exactly when
\* the queue is not empty, and a successful read returns the queue's head.
FifoOrder ==
    /\ Stored(this) = queue
    /\ op = "write" => ret.b = (Len(pre.queue) < S)
    /\ op = "read" =>
         /\ ret.b = (pre.queue # <<>>)
         /\ ret.b => value = Head(pre.queue)

\* a successful read of a buffer of capacity 4 whose read cursor has passed
\* the storage length twice, with two different oldest elements
FifoOrderWitness ==
    /\ op = "read" /\ ret.b
    /\ S = 4
    /\ pre.m_cread >= 2 * S
    /\ Len(pre.queue) >= 2
    /\ pre.queue[1] # pre.queue[2]
    /\ value = pre.queue[1]

\* C2: 0 <= write_cursor - read_cursor <= S in every reachable state, and
\* count() is never greater than size().
CursorsInRange ==
    /\ 0 <= Fill(this)
    /\ Fill(this) <= S
    /\ count(this) <= size

\* a bulk write has filled a buffer of capacity 4 to the limit
CursorsInRangeWitness ==
    /\ op = "write_bulk" /\ ret.b
    /\ S = 4
    /\ Fill(pre) < S
    /\ Fill(this) = S

\* C3: is_full() is true exactly when write_cursor - read_cursor = S;
\* is_full() and is_empty() are never both true; count() is 0 in the full
\* and in the empty state.
FullExactlyAtCapacity ==
    /\ is_full(this) <=> (Fill(this) = S)
    /\ ~(is_full(this) /\ is_empty(this))
    /\ is_full(this) => count(this) = 0
    /\ is_empty(this) => count(this) = 0

\* a full buffer of capacity 4: count() is 0, is_empty() is false
FullExactlyAtCapacityWitness ==
    /\ S = 4
    /\ is_full(this)
    /\ ~is_empty(this)
    /\ count(this) = 0
    /\ Len(queue) = 4

\* C4: write(value) returns false exactly when the buffer is full, leaving
\* cursors and storage unchanged; otherwise it returns true, stores value at
\* storage[write_cursor & mask] and increases write_cursor by 1.
WriteContract ==
    op = "write" =>
        IF Fill(pre) = S
        THEN /\ ret = RetBool(FALSE)
             /\ BufferUnchanged
        ELSE /\ ret = RetBool(TRUE)
             /\ m_storage = [pre.m_storage EXCEPT
                                ![BitAnd(pre.m_cwrite, m_mask)] = arg.v]
             /\ m_cwrite = ToIndex(pre.m_cwrite + 1)

\* a write refused by a full buffer of capacity 4 whose slot at the write
\* cursor holds another value than the one offered
WriteContractWitness ==
    /\ op = "write" /\ ret = RetBool(FALSE)
    /\ S = 4
    /\ Fill(pre) = S
    /\ pre.m_storage[BitAnd(pre.m_cwrite, m_mask)] # arg.v

\* C5: read(value) returns false exactly when the buffer is empty, leaving
\* cursors, storage and the caller's variable unchanged; otherwise it
\* returns true, sets the variable to storage[read_cursor & mask] and
\* increases read_cursor by 1.
ReadContract ==
    op = "read" =>
        IF Fill(pre) = 0
        THEN /\ ret = RetBool(FALSE)
             /\ BufferUnchanged
             /\ value = pre.value
        ELSE /\ ret = RetBool(TRUE)
             /\ value = pre.m_storage[BitAnd(pre.m_cread, m_mask)]
             /\ m_cread = ToIndex(pre.m_cread + 1)

\* a read refused by an emptied buffer whose slot at the read cursor holds
\* another value than the caller's variable
ReadContractWitness ==
    /\ op = "read" /\ ret = RetBool(FALSE)
    /\ pre.m_cread > 0
    /\ Fill(pre) = 0
    /\ pre.m_storage[BitAnd(pre.m_cread, m_mask)] # pre.value

\* C6: a bulk write whose len is greater than the number of free slots,
\* S - (write_cursor - read_cursor), returns false and leaves cursors and
\* storage unchanged.
BulkWriteRefusesOverflow ==
    (op = "write_bulk" /\ arg.len > S - Fill(pre)) =>
        /\ ret = RetBool(FALSE)
        /\ BufferUnchanged

\* C7: whenever a bulk write returns true, write_cursor has increased by
\* len, read_cursor is unchanged and the stored elements are those stored
\* before followed by p[0], ..., p[len-1].
BulkWriteAppendsAll ==
    (op = "write_bulk" /\ ret = RetBool(TRUE)) =>
        /\ m_cwrite = ToIndex(pre.m_cwrite + arg.len)
        /\ m_cread = pre.m_cread
        /\ Stored(this) = Stored(pre) \o arg.p

\* C8: with n stored elements, 1 <= n <= S, operator[](i) for 0 <= i < n
\* and first() raise no error, return storage[(read_cursor + i) & mask] and
\* leave the cursors unchanged.
IndexValidReturnsElement ==
    /\ (op = "operator[]" /\ arg.i < Fill(pre)) =>
          /\ ret = RetValue(pre.queue[arg.i + 1])
          /\ ret = RetValue(pre.m_storage[
                        BitAnd(ToIndex(pre.m_cread + arg.i), m_mask)])
          /\ BufferUnchanged
    /\ (op = "first" /\ Fill(pre) >= 1) =>
          /\ ret = RetValue(Head(pre.queue))
          /\ BufferUnchanged

\* C9: last() returns the most recently written stored element at every
\* fill level from 1 to S and raises out_of_range only when the buffer is
\* empty.
LastReturnsNewest ==
    op = "last" =>
        IF Fill(pre) = 0
        THEN ret = OutOfRange
        ELSE ret = RetValue(pre.queue[Len(pre.queue)])

\* C10: operator[](i) raises out_of_range whenever the buffer is empty or i
\* is not in 0 .. n-1, n the number of stored elements, and the failing call
\* leaves cursors and storage unchanged.
IndexInvalidRaises ==
    (op = "operator[]" /\ (Fill(pre) = 0 \/ arg.i >= Fill(pre))) =>
        /\ ret = OutOfRange
        /\ BufferUnchanged

EmptyExactlyWhenAllRead ==
    /\ op \in {"ring_buffer", "clear"} => is_empty(this)
    /\ is_empty(this) <=> (queue = <<>>)
    /\ op = "is_empty" => ret = RetBool(queue = <<>>)
    /\ (op \in {"write", "operator<<"} /\ m_cwrite # pre.m_cwrite) =>
          ~is_empty(this)

\* is_empty() answers false on a full buffer of capacity 4 and the buffer
\* was emptied by reads before
EmptyExactlyWhenAllReadWitness ==
    /\ op = "is_empty" /\ ret = RetBool(FALSE)
    /\ S = 4
    /\ Len(queue) = 4
    /\ m_cread >= 4

\* C14: clear() sets both cursors to zero in any state, so that is_empty()
\* is true, is_full() is false and count() is 0, and changes no storage
\* slot.
ClearResets ==
    op = "clear" =>
        /\ m_cwrite = 0
        /\ m_cread = 0
        /\ is_empty(this)
        /\ ~is_full(this)
        /\ count(this) = 0
        /\ m_storage = pre.m_storage

\* clear() of a full buffer of capacity 4 with advanced cursors
ClearResetsWitness ==
    /\ op = "clear"
    /\ S = 4
    /\ Fill(pre) = 4
    /\ pre.m_cread > 0

\* s is a power of two
IsPowerOfTwo(s) == \E k \in 0 .. IndexBits : s = 2 ^ k

\* the values of index_type the capacity check accepts
Accepted == {s \in Index : ring_buffer_size_validator__(s)}

\* the powers of two of index_type
PowersOfTwo == {s \in Index : IsPowerOfTwo(s)}

\* C15: the capacity check accepts S exactly when S is a power of two, for
\* every S of index_type; the capacity of an instantiated buffer is a power
\* of two 2^k and m_mask = S - 1 has exactly the k low bits set.
ValidatorAcceptsPowersOfTwo ==
    /\ Accepted = PowersOfTwo
    /\ Capacities \subseteq PowersOfTwo
    /\ \E k \in 0 .. IndexBits :
          /\ S = 2 ^ k
          /\ \A j \in 0 .. (IndexBits - 1) :
                ((m_mask \div (2 ^ j)) % 2 = 1) <=> (j < k)

\* a buffer of capacity 4 has been instantiated, its mask is 3
ValidatorAcceptsPowersOfTwoWitness ==
    /\ op = "ring_buffer"
    /\ S = 4
    /\ m_mask = 3
    /\ 3 \notin Capacities

\* the data members of the state the call was made in
PreThis ==
    [m_storage |-> pre.m_storage, m_cwrite |-> pre.m_cwrite,
     m_cread |-> pre.m_cread]

\* C16: operator<<(v) has the state effect of write(v): on a non-full
\* buffer v is stored at the write cursor, which advances by 1; on a full
\* buffer nothing changes; buf << a << b, from any state a call can start
\* in, leaves the state of write(a) followed by write(b).
InsertIsWrite ==
    /\ op = "operator<<" =>
          /\ this = write(PreThis, arg.v).rb
          /\ IF Len(pre.queue) = S
             THEN BufferUnchanged
             ELSE /\ m_storage = [pre.m_storage EXCEPT
                                     ![BitAnd(pre.m_cwrite, m_mask)] = arg.v]
                  /\ m_cwrite = ToIndex(pre.m_cwrite + 1)
                  /\ m_cread = pre.m_cread
    /\ Idle =>
          \A a, b \in Values :
              insert(insert(this, a), b) = write(write(this, a).rb, b).rb

\* operator<< on a full buffer of capacity 4 drops a value that differs from
\* the slot at the write cursor
InsertIsWriteWitness ==
    /\ op = "operator<<"
    /\ S = 4
    /\ Len(pre.queue) = 4
    /\ pre.m_storage[BitAnd(pre.m_cwrite, m_mask)] # arg.v

\* C17: a bulk write with len = 0 or a negative len returns false and
\* leaves cursors and storage unchanged.
BulkWriteRefusesNoLength ==
    (op = "write_bulk" /\ arg.len <= 0) =>
        /\ ret = RetBool(FALSE)
        /\ BufferUnchanged

\* a bulk write with a negative len refused by a partly filled buffer
BulkWriteRefusesNoLengthWitness ==
    /\ op = "write_bulk" /\ ret = RetBool(FALSE)
    /\ arg.len < 0
    /\ S = 4
    /\ Fill(pre) = 2

\* the storage slots that hold the unread elements of rb
UnreadSlots(rb) ==
    {BitAnd(ToIndex(rb.m_cread + i), m_mask) : i \in 0 .. (Fill(rb) - 1)}

\* C19: a successful write changes no slot but the slot write_cursor & mask,
\* which holds no unread element; read, clear and the state queries change
\* no storage slot, and read does not change write_cursor.
WriteSparesUnread ==
    /\ (op = "write" /\ ret = RetBool(TRUE)) =>
          /\ \A j \in 0 .. (S - 1) :
                j # BitAnd(pre.m_cwrite, m_mask) =>
                    m_storage[j] = pre.m_storage[j]
          /\ m_storage[BitAnd(pre.m_cwrite, m_mask)] = arg.v
          /\ BitAnd(pre.m_cwrite, m_mask) \notin UnreadSlots(pre)
          /\ SubSeq(Stored(this), 1, Len(pre.queue)) = pre.queue
    /\ op \in {"read", "clear", "is_full", "is_empty", "count"} =>
          m_storage = pre.m_storage
    /\ op = "read" => m_cwrite = pre.m_cwrite
    /\ op \in {"is_full", "is_empty", "count"} => BufferUnchanged

\* a write into the last free slot of a buffer of capacity 4, after the
\* cursors went round the storage, that changes the slot
WriteSparesUnreadWitness ==
    /\ op = "write" /\ ret = RetBool(TRUE)
    /\ S = 4
    /\ Fill(pre) = 3
    /\ pre.m_cwrite >= 4
    /\ pre.m_storage[BitAnd(pre.m_cwrite, m_mask)] # arg.v

\* C13: with S = 4 and a new buffer, the writes of 1, 2, 3, 4 return true
\* and is_full() is then true; a fifth write returns false; a read returns
\* 1 and count() is then 3; write(5) returns true and is_full() is true
\* again; four further reads return 2, 3, 4, 5 and the buffer is then empty.
ScenarioAsDescribed ==
    /\ pc \in 2 .. 5 => (ret = RetBool(TRUE) /\ arg.v = pc - 1)
    /\ pc = 5 => is_full(this)
    /\ pc = 6 => (ret = RetBool(FALSE) /\ is_full(this))
    /\ pc = 7 => (ret = RetBool(TRUE) /\ value = 1 /\ count(this) = 3)
    /\ pc = 8 => (ret = RetBool(TRUE) /\ arg.v = 5 /\ is_full(this))
    /\ pc \in 9 .. 12 => (ret = RetBool(TRUE) /\ value = pc - 7)
    /\ pc = 12 => is_empty(this)

\* the scenario has run to its end: the last read returned 5
ScenarioAsDescribedWitness ==
    /\ pc = 12
    /\ op = "read" /\ ret = RetBool(TRUE)
    /\ value = 5
    /\ m_cread = 5
    /\ is_empty(this)

\* C18: with cursors of IndexBits bits, is_empty(), is_full(), count(), the
\* storage indices cursor & mask, the storage, the results of write and read
\* and the order of the stored elements are those of the reference buffer
\* with unbounded cursors, also when the cursors have wrapped.
CursorWrapHarmless ==
    /\ is_empty(this) = wide_is_empty(wide)
    /\ is_full(this) = wide_is_full(wide)
    /\ count(this) = wide_count(wide)
    /\ BitAnd(m_cwrite, m_mask) = BitAnd(wide.m_cwrite, m_mask)
    /\ BitAnd(m_cread, m_mask) = BitAnd(wide.m_cread, m_mask)
    /\ m_storage = wide.m_storage
    /\ value = wide.out
    /\ Stored(this) = WideStored(wide)
    /\ op \in {"write", "read"} => ret = RetBool(wide.ret)

\* a successful read of a buffer of capacity 4 whose write cursor has
\* wrapped past the largest index_type value while its read cursor has not
CursorWrapHarmlessWitness ==
    /\ op = "read" /\ ret = RetBool(TRUE)
    /\ S = 4
    /\ pre.m_cwrite < pre.m_cread
    /\ wide.m_cwrite >= IndexMod
    /\ wide.m_cread < IndexMod
    /\ Len(pre.queue) >= 2
    /\ pre.queue[1] # pre.queue[2]

====
